---- MODULE Spec2Model ----
(***************************************************************************)
(* A model of the pre-market decision engine of qt_ai:                     *)
(*   src/src/risk.py       the exit rules and the position limit           *)
(*   src/src/premarket.py  generate_actions                                *)
(*   src/src/portfolio.py  apply_confirmed_actions                         *)
(*                                                                         *)
(* Numbers.  Prices, cash and share counts are integers.  avg_price,       *)
(* cost_basis and high_since_entry are exact rationals [n, d] (d > 0),     *)
(* because the code divides when it averages a cost.  Thresholds are in    *)
(* percent (-15 is the code's -0.15) and every comparison is made by       *)
(* cross-multiplication, so the model computes what the code computes      *)
(* wherever binary rounding does not move a value across a threshold.      *)
(*                                                                         *)
(* A Python dict that the code iterates over (positions, exits) is a       *)
(* sequence of entries [k, v] in insertion order.  A dict that is only     *)
(* read with .get (current_prices, ma200_prices) is a function on Symbols  *)
(* whose value None means "no entry".                                      *)
(***************************************************************************)
EXTENDS Integers, Sequences, FiniteSets, TLC

VARIABLES
    portfolio,        \* the portfolio record: cash, positions, transactions
    current_prices,   \* symbol -> latest price, or None
    ma200_prices,     \* symbol -> 200-day average, or None
    momentum_ranks,   \* the list rank_by_momentum returned
    run,              \* the last call of generate_actions: called, raised, actions
    exit_result,      \* the last call of check_all_exit_conditions: called, raised, exits
    applied,          \* the last call of apply_confirmed_actions: its batch and outcome,
                      \* and the number of actions reviewed so far
    ranking,          \* the call of rank_by_momentum in progress: its arguments, what
                      \* each fetch returns, the futures not completed yet, the scores
                      \* collected so far
    stored,           \* data/portfolio.json: the portfolio last saved, and whether
                      \* the pre-market run has done its high-price tracking
    confirmation      \* data/actions_<date>.json and the runs of run_confirm on it: the
                      \* actions in the file, the number of runs, what the last raised

vars == <<portfolio, current_prices, ma200_prices, momentum_ranks, run, exit_result, applied,
          ranking, stored, confirmation>>

-----------------------------------------------------------------------------
(* Values *)

\* Python's None, for an integer-valued field or dict entry that is absent.
None == -1

\* None for a rational-valued field (high_since_entry absent).
NoneR == [n |-> 0, d |-> 0]

Symbols == {"AAA", "BBB", "XXX"}

Abs(i) == IF i < 0 THEN -i ELSE i

Min(a, b) == IF a <= b THEN a ELSE b

Max(a, b) == IF a >= b THEN a ELSE b

RECURSIVE GCD(_, _)
GCD(a, b) == IF b = 0 THEN a ELSE GCD(b, a % b)

\* The rational n/d in lowest terms, d > 0.
Rat(n, d) ==
    LET g == GCD(Abs(n), d)
    IN  [n |-> n \div g, d |-> d \div g]

RInt(i) == [n |-> i, d |-> 1]

RLe(a, b) == a.n * b.d <= b.n * a.d

RLt(a, b) == a.n * b.d < b.n * a.d

RMax(a, b) == IF RLe(b, a) THEN a ELSE b

RMulInt(r, i) == Rat(r.n * i, r.d)

RAdd(a, b) == Rat(a.n * b.d + b.n * a.d, a.d * b.d)

\* r * pct / 100: a float product such as high_price * (1 + threshold).
RPct(r, pct) == Rat(r.n * pct, r.d * 100)

-----------------------------------------------------------------------------
(* Python containers *)

Range(s) == {s[i] : i \in DOMAIN s}

\* key in dict
Has(d, k) == \E i \in DOMAIN d : d[i].k = k

\* dict[key], for a key that is present
Get(d, k) == d[CHOOSE i \in DOMAIN d : d[i].k = k].v

\* dict[key] = value: an existing key keeps its place, a new one goes last
Put(d, k, v) ==
    IF Has(d, k)
    THEN [i \in DOMAIN d |-> IF d[i].k = k THEN [k |-> k, v |-> v] ELSE d[i]]
    ELSE Append(d, [k |-> k, v |-> v])

\* del dict[key]
Del(d, k) == SelectSeq(d, LAMBDA e : e.k # k)

Keys(d) == {d[i].k : i \in DOMAIN d}

-----------------------------------------------------------------------------
(* src/src/risk.py *)

\* (price - avg_price) / avg_price <= threshold, avg_price # 0, threshold in percent
PnlAtMost(price, avg, threshold) ==
    IF avg.n > 0
    THEN 100 * (price * avg.d - avg.n) <= threshold * avg.n
    ELSE 100 * (price * avg.d - avg.n) >= threshold * avg.n

\* The division of check_stop_loss raises ZeroDivisionError for a non-core
\* position that has a price and avg_price = 0.
check_stop_loss_raises(positions, prices) ==
    \E i \in DOMAIN positions :
        /\ ~positions[i].v.core
        /\ prices[positions[i].k] # None
        /\ positions[i].v.avg_price.n = 0

check_stop_loss(positions, prices, threshold) ==
    LET triggered(e) ==
            /\ ~e.v.core
            /\ prices[e.k] # None
            /\ PnlAtMost(prices[e.k], e.v.avg_price, threshold)
        item(e) == [symbol |-> e.k, reason |-> "extreme_stop"]
        hit == SelectSeq(positions, triggered)
    IN  [i \in DOMAIN hit |-> item(hit[i])]

trailing_stop_price(pos, threshold) == RPct(pos.high_since_entry, 100 + threshold)

breakeven_stop_price(pos, max_loss_threshold) == RPct(pos.avg_price, 100 + max_loss_threshold)

check_trailing_stop(positions, prices, threshold, max_loss_threshold) ==
    LET stop_price(pos) ==
            RMax(trailing_stop_price(pos, threshold),
                 breakeven_stop_price(pos, max_loss_threshold))
        triggered(e) ==
            /\ ~e.v.core
            /\ prices[e.k] # None
            /\ e.v.high_since_entry # NoneR
            /\ e.v.avg_price.n > 0
            /\ RLe(RInt(prices[e.k]), stop_price(e.v))
        item(e) ==
            [symbol |-> e.k,
             stop_type |->
                 IF RLe(trailing_stop_price(e.v, threshold),
                        breakeven_stop_price(e.v, max_loss_threshold))
                 THEN "breakeven" ELSE "trailing",
             stop_price |-> stop_price(e.v),
             reason |-> "trailing_stop"]
        hit == SelectSeq(positions, triggered)
    IN  [i \in DOMAIN hit |-> item(hit[i])]

check_ma200_stop(positions, prices, ma200) ==
    LET triggered(e) ==
            /\ ~e.v.core
            /\ prices[e.k] # None
            /\ ma200[e.k] # None
            /\ prices[e.k] < ma200[e.k]
        item(e) == [symbol |-> e.k, ma200 |-> ma200[e.k], reason |-> "ma200_stop"]
        hit == SelectSeq(positions, triggered)
    IN  [i \in DOMAIN hit |-> item(hit[i])]

\* AddTrailingStops recording none of the rule-1 items
AddTrailingStops_dropped(exits, items) == exits

\* exits[item["symbol"]] = {...} for every item of the rule-1 list
RECURSIVE AddTrailingStops(_, _)
AddTrailingStops(exits, items) ==
    IF items = <<>> THEN exits
    ELSE AddTrailingStops(
             Put(exits, Head(items).symbol,
                 [reason |-> "trailing_stop", details |-> Head(items)]),
             Tail(items))

\* AddIfAbsent without its "not in exits" test: a later rule overwrites an earlier one
RECURSIVE AddIfAbsent_overwrite(_, _)
AddIfAbsent_overwrite(exits, items) ==
    IF items = <<>> THEN exits
    ELSE AddIfAbsent_overwrite(
             Put(exits, Head(items).symbol,
                 [reason |-> Head(items).reason, details |-> Head(items)]),
             Tail(items))

\* for item in stops: if item["symbol"] not in exits: exits[...] = {...}
RECURSIVE AddIfAbsent(_, _)
AddIfAbsent(exits, items) ==
    IF items = <<>> THEN exits
    ELSE AddIfAbsent(
             IF ~Has(exits, Head(items).symbol)
             THEN Put(exits, Head(items).symbol,
                      [reason |-> Head(items).reason, details |-> Head(items)])
             ELSE exits,
             Tail(items))

check_all_exit_conditions(positions, prices, ma200, trailing_threshold, hard_threshold, max_loss_threshold) ==
    IF check_stop_loss_raises(positions, prices)
    THEN [raised |-> "ZeroDivisionError", exits |-> <<>>]
    ELSE [raised |-> "none",
          exits |->
              AddIfAbsent(
                  AddIfAbsent(
                      AddTrailingStops(<<>>,
                          check_trailing_stop(positions, prices,
                                              trailing_threshold, max_loss_threshold)),
                      check_ma200_stop(positions, prices, ma200)),
                  check_stop_loss(positions, prices, hard_threshold))]

\* The defaults of check_all_exit_conditions' keyword parameters, in percent.
trailing_threshold_default == -15

hard_threshold_default == -35

max_loss_threshold_default == -5

max_stocks == 30

check_position_limit(pf) ==
    Max(max_stocks - Len(SelectSeq(pf.positions, LAMBDA e : ~e.v.core)), 0)

-----------------------------------------------------------------------------
(* src/src/premarket.py *)

ROTATE_MOMENTUM_DIFF == 10

ROTATE_HOLDING_DAYS_MIN == 30

\* CASH_SAFETY_FACTOR = 0.85, in percent
CASH_SAFETY_FACTOR == 85

\* num_to_add = min(5, ...)
MaxAdds == 5

\* the holding days of a position whose first_entry is missing or does not parse
UnknownHoldingDays == 999

\* date.today(), as a day number
Today == 400

\* m_info.get("momentum") when momentum_ranks has no entry for the symbol
NoMomentum == -1000

\* momentum_map = {m["symbol"]: m for m in momentum_ranks}: the last entry wins
InRanks(ranks, sym) == \E i \in DOMAIN ranks : ranks[i].symbol = sym

RankEntry(ranks, sym) ==
    ranks[CHOOSE i \in DOMAIN ranks :
              /\ ranks[i].symbol = sym
              /\ \A j \in DOMAIN ranks : ranks[j].symbol = sym => j <= i]

MomentumOf(ranks, sym) ==
    IF InRanks(ranks, sym) THEN RankEntry(ranks, sym).momentum ELSE NoMomentum

RankOf(ranks, sym) ==
    IF InRanks(ranks, sym) THEN RankEntry(ranks, sym).rank ELSE None

\* The parameters check_all_exit_conditions declares (risk.py) and the keywords
\* generate_actions passes besides the three positional arguments (premarket.py).
\* Python raises TypeError at the call when a keyword names no parameter.
exit_conditions_parameters ==
    {"positions", "current_prices", "ma200_prices",
     "trailing_threshold", "hard_threshold", "max_loss_threshold"}

exit_conditions_keywords == {"fixed_threshold", "hard_threshold"}

\* exit_signals = check_all_exit_conditions(positions, current_prices, ma200_prices,
\*                    fixed_threshold=-0.15, hard_threshold=-0.35)
exit_signals_call(positions, prices, ma200) ==
    IF ~(exit_conditions_keywords \subseteq exit_conditions_parameters)
    THEN [raised |-> "TypeError", exits |-> <<>>]
    ELSE check_all_exit_conditions(positions, prices, ma200,
                                   trailing_threshold_default, -35,
                                   max_loss_threshold_default)

\* The reason of an ordinary HOLD, by momentum bucket.
hold_reason(momentum) ==
    IF momentum = NoMomentum THEN "holding"
    ELSE IF momentum > 10 THEN "holding, strong momentum"
    ELSE IF momentum > 0 THEN "holding, positive momentum"
    ELSE "holding, weak momentum"

\* Section 2: one HOLD or EXIT per position, in dict order, ids 1..n.
\* (pnl_pct, alpha_1y and the echoed high_since_entry are display fields and
\* are left out of the records.)
holding_action(positions, i, prices, ranks, exit_signals) ==
    LET symbol == positions[i].k
        pos == positions[i].v
        base == [id |-> i, symbol |-> symbol, shares |-> pos.shares,
                 current_price |-> prices[symbol], avg_price |-> pos.avg_price,
                 momentum |-> MomentumOf(ranks, symbol)]
    IN  IF pos.core
        THEN base @@ [action |-> "HOLD", reason |-> "core position",
                      source |-> "core_hold", status |-> "auto"]
        ELSE IF Has(exit_signals, symbol)
        THEN base @@ [action |-> "EXIT", reason |-> Get(exit_signals, symbol).reason,
                      source |-> Get(exit_signals, symbol).reason, status |-> "pending"]
        ELSE base @@ [action |-> "HOLD", reason |-> hold_reason(MomentumOf(ranks, symbol)),
                      momentum_rank |-> RankOf(ranks, symbol),
                      source |-> "momentum", status |-> "auto"]

holding_actions(positions, prices, ranks, exit_signals) ==
    [i \in DOMAIN positions |-> holding_action(positions, i, prices, ranks, exit_signals)]

exit_symbols(actions) == {a.symbol : a \in {b \in Range(actions) : b.action = "EXIT"}}

\* current_prices.get(symbol, 0)
price_or_zero(prices, sym) == IF prices[sym] = None THEN 0 ELSE prices[sym]

RECURSIVE exit_proceeds(_, _)
exit_proceeds(actions, prices) ==
    IF actions = <<>> THEN 0
    ELSE (IF Head(actions).action = "EXIT"
          THEN price_or_zero(prices, Head(actions).symbol) * Head(actions).shares
          ELSE 0)
         + exit_proceeds(Tail(actions), prices)

exit_count(actions) == Len(SelectSeq(actions, LAMBDA a : a.action = "EXIT"))

\* projected_cash = current_cash + exit_proceeds * CASH_SAFETY_FACTOR
projected_cash(pf, actions, prices) ==
    RAdd(RInt(pf.cash), Rat(exit_proceeds(actions, prices) * CASH_SAFETY_FACTOR, 100))

\* buy_candidates and strong_candidates: the same filter, in rank order
buy_candidates(positions, ranks, actions) ==
    SelectSeq(ranks, LAMBDA m : /\ m.momentum > 0
                                /\ ~Has(positions, m.symbol)
                                /\ m.symbol \notin exit_symbols(actions))

num_to_add(pf, ranks, actions) ==
    Min(MaxAdds,
        Min(check_position_limit(pf) + exit_count(actions),
            Len(buy_candidates(pf.positions, ranks, actions))))

\* math.floor(position_size / price), or 0
suggested_shares(position_size, price) ==
    IF price > 0 /\ position_size.n > 0
    THEN position_size.n \div (position_size.d * price)
    ELSE 0

add_reason(m, shares) ==
    [text |-> "momentum rank", short_of_cash |-> shares = 0,
     rsi_warning |-> IF m.rsi # None /\ m.rsi > 80 THEN "extreme"
                     ELSE IF m.rsi # None /\ m.rsi > 75 THEN "overbought"
                     ELSE "none"]

\* Section 3: the ADD actions
add_actions(pf, prices, ranks, actions) ==
    LET slots == check_position_limit(pf) + exit_count(actions)
        cands == buy_candidates(pf.positions, ranks, actions)
        n == num_to_add(pf, ranks, actions)
        cash == projected_cash(pf, actions, prices)
        position_size == IF n > 0 THEN Rat(cash.n, cash.d * n) ELSE RInt(0)
        add(j) ==
            LET m == cands[j]
                price == price_or_zero(prices, m.symbol)
                shares == suggested_shares(position_size, price)
            IN  [id |-> Len(actions) + j, action |-> "ADD", symbol |-> m.symbol,
                 suggested_shares |-> shares, current_price |-> price,
                 momentum |-> m.momentum, rsi |-> m.rsi, momentum_rank |-> m.rank,
                 reason |-> add_reason(m, shares),
                 source |-> "momentum", status |-> "pending"]
    IN  IF slots > 0 /\ ranks # <<>>
        THEN [j \in 1..n |-> add(j)]
        ELSE <<>>

get_holding_days(pos) ==
    IF pos.first_entry # None THEN Today - pos.first_entry ELSE UnknownHoldingDays

\* list.sort(key=...) is stable: x goes after every element whose key is <= its own
RECURSIVE InsertByMomentum(_, _)
InsertByMomentum(x, s) ==
    IF s = <<>> THEN <<x>>
    ELSE IF x.momentum < Head(s).momentum THEN <<x>> \o s
    ELSE <<Head(s)>> \o InsertByMomentum(x, Tail(s))

RECURSIVE SortByMomentum(_)
SortByMomentum(s) ==
    IF s = <<>> THEN <<>>
    ELSE InsertByMomentum(s[Len(s)], SortByMomentum(SubSeq(s, 1, Len(s) - 1)))

rotatable_positions(positions, ranks, actions) ==
    LET kept == SelectSeq(positions,
                          LAMBDA e : /\ ~e.v.core
                                     /\ ~e.v.favorite
                                     /\ e.k \notin exit_symbols(actions)
                                     /\ MomentumOf(ranks, e.k) # NoMomentum
                                     /\ get_holding_days(e.v) >= ROTATE_HOLDING_DAYS_MIN)
    IN  SortByMomentum([i \in DOMAIN kept |->
                           [sym |-> kept[i].k, pos |-> kept[i].v,
                            momentum |-> MomentumOf(ranks, kept[i].k),
                            holding_days |-> get_holding_days(kept[i].v)]])

\* math.floor(pos_value * CASH_SAFETY_FACTOR / candidate_price), or 0
rotate_shares(pos_value, candidate_price) ==
    IF candidate_price > 0
    THEN (pos_value * CASH_SAFETY_FACTOR) \div (100 * candidate_price)
    ELSE 0

\* The inner loop: the indexes of the candidates that end it with a ROTATE.
rotate_matches(r, candidates, used, prices) ==
    {j \in DOMAIN candidates :
        /\ candidates[j].symbol \notin used
        /\ candidates[j].momentum - r.momentum > ROTATE_MOMENTUM_DIFF
        /\ rotate_shares(price_or_zero(prices, r.sym) * r.pos.shares,
                         price_or_zero(prices, candidates[j].symbol)) > 0}

rotate_action(r, c, id, prices) ==
    [id |-> id, action |-> "ROTATE",
     sell_symbol |-> r.sym, sell_shares |-> r.pos.shares,
     sell_price |-> price_or_zero(prices, r.sym), sell_momentum |-> r.momentum,
     sell_holding_days |-> r.holding_days,
     buy_symbol |-> c.symbol,
     buy_shares |-> rotate_shares(price_or_zero(prices, r.sym) * r.pos.shares,
                                  price_or_zero(prices, c.symbol)),
     buy_price |-> price_or_zero(prices, c.symbol), buy_momentum |-> c.momentum,
     momentum_diff |-> c.momentum - r.momentum,
     reason |-> "rotate to stronger momentum",
     source |-> "rotate", status |-> "pending"]

\* Section 4: the outer loop over the rotatable positions, weakest first
RECURSIVE rotate_loop(_, _, _, _, _)
rotate_loop(rotatable, candidates, used, actions, prices) ==
    IF rotatable = <<>> THEN actions
    ELSE LET r == Head(rotatable)
             found == rotate_matches(r, candidates, used, prices)
             j == CHOOSE x \in found : \A y \in found : x <= y
         IN  IF price_or_zero(prices, r.sym) <= 0 \/ found = {}
             THEN rotate_loop(Tail(rotatable), candidates, used, actions, prices)
             ELSE rotate_loop(Tail(rotatable), candidates,
                              used \cup {candidates[j].symbol},
                              Append(actions,
                                     rotate_action(r, candidates[j], Len(actions) + 1, prices)),
                              prices)

\* generate_actions(portfolio, current_prices, ma200_prices, momentum_ranks)
generate_actions(pf, prices, ma200, ranks) ==
    LET signals == exit_signals_call(pf.positions, prices, ma200)
        held == holding_actions(pf.positions, prices, ranks, signals.exits)
        sized == held \o add_actions(pf, prices, ranks, held)
    IN  IF signals.raised # "none"
        THEN [raised |-> signals.raised, actions |-> <<>>]
        ELSE [raised |-> "none",
              actions |-> rotate_loop(
                              rotatable_positions(pf.positions, ranks, held),
                              buy_candidates(pf.positions, ranks, held),
                              {}, sized, prices)]

-----------------------------------------------------------------------------
(* src/src/portfolio.py *)

\* calc_avg_price averaging the two prices without their share counts
calc_avg_price_unweighted(current_avg, current_shares, new_price, new_shares) ==
    LET total == RAdd(current_avg, RInt(new_price))
    IN  Rat(total.n, total.d * 2)

calc_avg_price(current_avg, current_shares, new_price, new_shares) ==
    LET total_cost == RAdd(RMulInt(current_avg, current_shares), RInt(new_price * new_shares))
        total_shares == current_shares + new_shares
    IN  IF total_shares = 0 THEN RInt(0)
        ELSE Rat(total_cost.n, total_cost.d * total_shares)

\* shares_of reading suggested_shares whatever the key asked for
shares_of_suggested(action, key) ==
    IF action.actual_shares # None THEN action.actual_shares
    ELSE IF action.suggested_shares # None THEN action.suggested_shares
    ELSE 0

\* action.get("actual_shares", action.get(key, 0)): a key that is absent is None
shares_of(action, key) ==
    IF action.actual_shares # None THEN action.actual_shares
    ELSE IF action[key] # None THEN action[key]
    ELSE 0

\* action.get("actual_price", action["current_price"])
price_of(action) ==
    IF action.actual_price # None THEN action.actual_price ELSE action.current_price

\* action.get("confirm_date", str(date.today()))
tx_date_of(action) ==
    IF action.confirm_date # None THEN action.confirm_date ELSE Today

\* transaction logging the quoted price where the code logs the price applied
transaction_at_quote(action, act, shares, price) ==
    [date |-> tx_date_of(action), symbol |-> action.symbol, action |-> act,
     shares |-> shares, price |-> action.current_price]

transaction(action, act, shares, price) ==
    [date |-> tx_date_of(action), symbol |-> action.symbol, action |-> act,
     shares |-> shares, price |-> price]

\* the ADD branch of the loop body
apply_add(pf, action) ==
    LET shares == shares_of(action, "suggested_shares")
        price == price_of(action)
        symbol == action.symbol
        old == Get(pf.positions, symbol)
        avg == calc_avg_price(old.avg_price, old.shares, price, shares)
        held == [old EXCEPT !.avg_price = avg,
                            !.shares = old.shares + shares,
                            !.cost_basis = RMulInt(avg, old.shares + shares)]
        fresh == [shares |-> shares, avg_price |-> RInt(price),
                  cost_basis |-> RInt(price * shares),
                  first_entry |-> tx_date_of(action), core |-> FALSE,
                  favorite |-> FALSE, high_since_entry |-> NoneR]
    IN  IF shares <= 0 THEN pf
        ELSE [cash |-> pf.cash - price * shares,
              positions |-> Put(pf.positions, symbol,
                                IF Has(pf.positions, symbol) THEN held ELSE fresh),
              transactions |-> Append(pf.transactions,
                                      transaction(action, "ADD", shares, price))]

\* apply_exit leaving cost_basis as it was when shares are reduced
apply_exit_stale_cost_basis(pf, action) ==
    LET shares == shares_of(action, "shares")
        price == price_of(action)
        symbol == action.symbol
        old == Get(pf.positions, symbol)
        reduced == [old EXCEPT !.shares = old.shares - shares]
    IN  IF shares <= 0 THEN pf
        ELSE [cash |-> pf.cash + price * shares,
              positions |->
                  IF ~Has(pf.positions, symbol) THEN pf.positions
                  ELSE IF shares >= old.shares THEN Del(pf.positions, symbol)
                  ELSE Put(pf.positions, symbol, reduced),
              transactions |-> Append(pf.transactions,
                                      transaction(action, "EXIT", shares, price))]

\* apply_exit deleting the position only when more shares are sold than held
apply_exit_keeps_empty(pf, action) ==
    LET shares == shares_of(action, "shares")
        price == price_of(action)
        symbol == action.symbol
        old == Get(pf.positions, symbol)
        reduced == [old EXCEPT !.shares = old.shares - shares,
                               !.cost_basis = RMulInt(old.avg_price, old.shares - shares)]
    IN  IF shares <= 0 THEN pf
        ELSE [cash |-> pf.cash + price * shares,
              positions |->
                  IF ~Has(pf.positions, symbol) THEN pf.positions
                  ELSE IF shares > old.shares THEN Del(pf.positions, symbol)
                  ELSE Put(pf.positions, symbol, reduced),
              transactions |-> Append(pf.transactions,
                                      transaction(action, "EXIT", shares, price))]

\* the EXIT branch of the loop body
apply_exit(pf, action) ==
    LET shares == shares_of(action, "shares")
        price == price_of(action)
        symbol == action.symbol
        old == Get(pf.positions, symbol)
        reduced == [old EXCEPT !.shares = old.shares - shares,
                               !.cost_basis = RMulInt(old.avg_price, old.shares - shares)]
    IN  IF shares <= 0 THEN pf
        ELSE [cash |-> pf.cash + price * shares,
              positions |->
                  IF ~Has(pf.positions, symbol) THEN pf.positions
                  ELSE IF shares >= old.shares THEN Del(pf.positions, symbol)
                  ELSE Put(pf.positions, symbol, reduced),
              transactions |-> Append(pf.transactions,
                                      transaction(action, "EXIT", shares, price))]

\* apply_action without the test of the status
apply_action_any_status(pf, action) ==
    IF action.action = "ADD" THEN apply_add(pf, action)
    ELSE IF action.action = "EXIT" THEN apply_exit(pf, action)
    ELSE pf

\* one pass of the loop body
apply_action(pf, action) ==
    IF action.status # "confirmed" THEN pf
    ELSE IF action.action = "ADD" THEN apply_add(pf, action)
    ELSE IF action.action = "EXIT" THEN apply_exit(pf, action)
    ELSE pf

RECURSIVE apply_confirmed_actions(_, _)
apply_confirmed_actions(pf, confirmed_actions) ==
    IF confirmed_actions = <<>> THEN pf
    ELSE apply_confirmed_actions(apply_action(pf, Head(confirmed_actions)),
                                 Tail(confirmed_actions))

\* update_high_prices' loop body replacing the recorded high by the price whenever there is one
update_high_to_price(pos, price) ==
    IF price = None THEN pos
    ELSE [pos EXCEPT !.high_since_entry = RInt(price)]

\* the body of the loop of update_high_prices for one position
update_high(pos, price) ==
    IF price = None THEN pos
    ELSE IF pos.high_since_entry = NoneR
    THEN [pos EXCEPT !.high_since_entry = RMax(RInt(price), pos.avg_price)]
    ELSE IF RLt(pos.high_since_entry, RInt(price))
    THEN [pos EXCEPT !.high_since_entry = RInt(price)]
    ELSE pos

\* update_high_prices returning False whatever it changed
update_high_prices_unflagged(pf, prices) ==
    [updated |-> FALSE,
     portfolio |->
         [pf EXCEPT !.positions =
              [i \in DOMAIN pf.positions |->
                  [k |-> pf.positions[i].k,
                   v |-> update_high(pf.positions[i].v, prices[pf.positions[i].k])]]]]

\* update_high_prices: the portfolio it leaves and the flag it returns
update_high_prices(pf, prices) ==
    LET positions == [i \in DOMAIN pf.positions |->
                         [k |-> pf.positions[i].k,
                          v |-> update_high(pf.positions[i].v, prices[pf.positions[i].k])]]
    IN  [updated |-> positions # pf.positions,
         portfolio |-> [pf EXCEPT !.positions = positions]]

\* the body of the loop of initialize_high_prices for one position
initialize_high(pos, price) ==
    IF pos.high_since_entry # NoneR THEN pos
    ELSE [pos EXCEPT !.high_since_entry =
              RMax(IF price # None THEN RInt(price) ELSE pos.avg_price, pos.avg_price)]

initialize_high_prices(pf, prices) ==
    [pf EXCEPT !.positions =
         [i \in DOMAIN pf.positions |->
             [k |-> pf.positions[i].k,
              v |-> initialize_high(pf.positions[i].v, prices[pf.positions[i].k])]]]

-----------------------------------------------------------------------------
(* The inputs of a run *)

\* the number of reviewed actions handed to apply_confirmed_actions in all
MaxReviewed == 3

\* the longest list handed to apply_confirmed_actions
MaxBatch == 2

Position(shares, avg, first_entry, core, favorite, high) ==
    [shares |-> shares, avg_price |-> RInt(avg), cost_basis |-> RInt(avg * shares),
     first_entry |-> first_entry, core |-> core, favorite |-> favorite,
     high_since_entry |-> high]

\* What a stored position can look like: 10 shares bought at 100; core or not;
\* with or without a recorded high; favorite or not; entered 60 or 10 days ago.
\* run_init stores the shares and the cost the user types, whatever they are:
\* a cost of 0 and a negative share count are among them.
PositionChoices ==
    {Position(10, 100, Today - 60, TRUE, FALSE, NoneR),
     Position(10, 100, Today - 60, FALSE, FALSE, NoneR),
     Position(10, 100, Today - 60, FALSE, FALSE, RInt(100)),
     Position(10, 100, Today - 60, FALSE, FALSE, RInt(120)),
     Position(10, 100, Today - 60, FALSE, TRUE, RInt(100)),
     Position(10, 100, Today - 10, FALSE, FALSE, RInt(100)),
     Position(10, 0, Today - 60, FALSE, FALSE, RInt(100)),
     Position(0 - 5, 100, Today - 60, FALSE, FALSE, RInt(100))}

\* The symbols a stored portfolio may hold, in the order they were entered.
HeldOrder == <<"XXX", "AAA">>

\* run_init: one position and one ADD transaction per symbol entered
StoredPortfolio(cash, held, choice) ==
    LET keys == SelectSeq(HeldOrder, LAMBDA k : k \in held)
    IN  [cash |-> cash,
         positions |-> [i \in DOMAIN keys |-> [k |-> keys[i], v |-> choice[keys[i]]]],
         transactions |->
             [i \in DOMAIN keys |->
                 [date |-> choice[keys[i]].first_entry, symbol |-> keys[i],
                  action |-> "ADD", shares |-> choice[keys[i]].shares,
                  price |-> choice[keys[i]].avg_price.n]]]

StoredPortfolios(cashes) ==
    {StoredPortfolio(c, held, choice) :
        c \in cashes, held \in SUBSET Range(HeldOrder),
        choice \in [Range(HeldOrder) -> PositionChoices]}

PriceMaps ==
    {[s \in Symbols |-> IF s = "XXX" THEN x ELSE IF s = "AAA" THEN a ELSE b] :
        x \in {None, 60, 84, 96, 110}, a \in {None, 84, 100}, b \in {None, 50}}

Ma200Maps ==
    {[s \in Symbols |-> IF s = "XXX" THEN x ELSE IF s = "AAA" THEN a ELSE None] :
        x \in {None, 100}, a \in {None, 120}}

Rank(symbol, momentum, rank, rsi) ==
    [symbol |-> symbol, momentum |-> momentum, rank |-> rank, rsi |-> rsi]

\* Lists as rank_by_momentum returns them: momentum descending, ranks 1..n.
RankLists ==
    {<<>>,
     <<Rank("AAA", 20, 1, None), Rank("BBB", 15, 2, 78)>>,
     <<Rank("BBB", 30, 1, 85), Rank("XXX", 2, 2, None), Rank("AAA", -5, 3, None)>>}

NotCalled == [called |-> FALSE, raised |-> "none"]

\* The actions the user can hand to apply_confirmed_actions.  A key that the
\* action does not have is None.
Confirm(status, act, symbol, suggested, shares, price, actual_shares, actual_price) ==
    [status |-> status, action |-> act, symbol |-> symbol,
     suggested_shares |-> suggested, shares |-> shares, current_price |-> price,
     actual_shares |-> actual_shares, actual_price |-> actual_price,
     confirm_date |-> Today]

ConfirmInputs ==
    {Confirm("confirmed", "ADD", "AAA", 5, None, 50, None, None),
     Confirm("confirmed", "ADD", "AAA", 5, None, 50, 3, 80),
     Confirm("confirmed", "ADD", "XXX", 5, None, 50, None, None),
     Confirm("confirmed", "ADD", "XXX", 0, None, 50, None, None),
     Confirm("confirmed", "EXIT", "XXX", None, 10, 50, None, None),
     Confirm("confirmed", "EXIT", "XXX", None, 10, 50, 4, 80),
     Confirm("confirmed", "EXIT", "XXX", None, 10, 50, 0, 50),
     Confirm("confirmed", "EXIT", "AAA", None, 5, 50, None, None),
     Confirm("skipped", "ADD", "AAA", 5, None, 50, None, None),
     Confirm("pending", "EXIT", "XXX", None, 10, 50, None, None),
     Confirm("auto", "HOLD", "XXX", None, 10, 50, None, None)}

ConfirmedAdd(a) == a.status = "confirmed" /\ a.action = "ADD"

\* no actions file, run_confirm not run
NoConfirmation == [actions |-> <<>>, runs |-> 0, raised |-> "none", offered |-> 0]

Batches == UNION {[1..n -> ConfirmInputs] : n \in 1..MaxBatch}

-----------------------------------------------------------------------------
(* src/src/momentum.py *)

\* what calculate_momentum_with_rsi returns for a symbol: None, or momentum and rsi
NoData == [ok |-> FALSE, momentum |-> 0, rsi |-> None]

Fetched(momentum, rsi) == [ok |-> TRUE, momentum |-> momentum, rsi |-> rsi]

\* the body of the as_completed loop: results[sym] = data unless data is None
collect(results, sym, data) ==
    IF data.ok THEN Put(results, sym, [momentum |-> data.momentum, rsi |-> data.rsi])
    ELSE results

\* sorted_by_momentum leaving the items in the order they were collected
sorted_as_collected(items) == items

\* x goes after every element whose momentum is >= its own
RECURSIVE InsertDescending(_, _)
InsertDescending(x, s) ==
    IF s = <<>> THEN <<x>>
    ELSE IF x.v.momentum > Head(s).v.momentum THEN <<x>> \o s
    ELSE <<Head(s)>> \o InsertDescending(x, Tail(s))

\* sorted(scores.items(), key=lambda x: x[1]["momentum"], reverse=True): the
\* sort is stable, items of equal momentum keep the order they have in scores
RECURSIVE sorted_by_momentum(_)
sorted_by_momentum(items) ==
    IF items = <<>> THEN <<>>
    ELSE InsertDescending(items[Len(items)],
                          sorted_by_momentum(SubSeq(items, 1, Len(items) - 1)))

\* rank_by_momentum once calculate_momentum_batch has returned scores
rank_by_momentum(scores, top_n) ==
    LET ranked == sorted_by_momentum(scores)
        results == [i \in DOMAIN ranked |->
                       Rank(ranked[i].k, ranked[i].v.momentum, i, ranked[i].v.rsi)]
    IN  IF top_n # None /\ top_n # 0
        THEN SubSeq(results, 1, Min(top_n, Len(results)))
        ELSE results

\* no call of rank_by_momentum in progress
NoRanking ==
    [symbols |-> <<>>, top_n |-> None, fetched |-> [s \in Symbols |-> NoData],
     pending |-> {}, scores |-> <<>>, returned |-> FALSE]

\* the symbol lists handed to rank_by_momentum: every list of distinct symbols
SymbolLists ==
    {l \in UNION {[1..n -> Symbols] : n \in 0..Cardinality(Symbols)} :
        \A i, j \in DOMAIN l : i # j => l[i] # l[j]}

FetchedChoices == {NoData, Fetched(5, None), Fetched(10, 78)}

TopNChoices == {None, 0, 2}

-----------------------------------------------------------------------------
(* The state machine *)

TypeOK ==
    /\ portfolio.cash \in Int
    /\ current_prices \in [Symbols -> Int]
    /\ ma200_prices \in [Symbols -> Int]
    /\ run.called \in BOOLEAN
    /\ exit_result.called \in BOOLEAN
    /\ applied.called \in BOOLEAN

\* A pre-market run: the stored portfolio and the signals fetched for it.
Init ==
    /\ portfolio \in StoredPortfolios({0, 10000})
    /\ current_prices \in PriceMaps
    /\ ma200_prices \in Ma200Maps
    /\ momentum_ranks \in RankLists
    /\ run = NotCalled @@ [actions |-> <<>>]
    /\ exit_result = NotCalled @@ [exits |-> <<>>]
    /\ applied = NotCalled @@ [batch |-> <<>>, reviewed |-> 0, cash0 |-> portfolio.cash,
                                logged0 |-> Len(portfolio.transactions)]
    /\ ranking = NoRanking
    /\ stored = [portfolio |-> portfolio, tracked |-> FALSE]
    /\ confirmation = NoConfirmation

\* actions = generate_actions(portfolio, current_prices, ma200_prices, momentum_ranks)
GenerateActions ==
    /\ ~run.called
    /\ run' = [called |-> TRUE] @@
              generate_actions(portfolio, current_prices, ma200_prices, momentum_ranks)
    /\ UNCHANGED <<portfolio, current_prices, ma200_prices, momentum_ranks,
                   exit_result, applied, ranking, stored, confirmation>>

\* check_all_exit_conditions(positions, current_prices, ma200_prices), every
\* keyword parameter at its default
CheckAllExitConditions ==
    /\ ~exit_result.called
    /\ exit_result' = [called |-> TRUE] @@
           check_all_exit_conditions(portfolio.positions, current_prices, ma200_prices,
                                     trailing_threshold_default, hard_threshold_default,
                                     max_loss_threshold_default)
    /\ UNCHANGED <<portfolio, current_prices, ma200_prices, momentum_ranks, run, applied,
                   ranking, stored, confirmation>>

\* apply_confirmed_actions(portfolio, confirmed_actions)
ApplyBatch(batch) ==
    /\ applied.reviewed + Len(batch) <= MaxReviewed
    /\ portfolio' = apply_confirmed_actions(portfolio, batch)
    /\ applied' = [applied EXCEPT !.called = TRUE, !.batch = batch,
                                  !.reviewed = applied.reviewed + Len(batch)]
    /\ stored' = [stored EXCEPT !.portfolio = portfolio']
    /\ UNCHANGED <<current_prices, ma200_prices, momentum_ranks, run, exit_result,
                   ranking, confirmation>>

ApplyConfirmedActions == \E batch \in Batches : ApplyBatch(batch)

Next == GenerateActions \/ CheckAllExitConditions

Spec == Init /\ [][Next]_vars

\* Confirmation: a stored portfolio and the reviewed actions applied to it.
InitConfirm ==
    /\ portfolio \in
           {pf \in StoredPortfolios({100, 1000}) :
               /\ Keys(pf.positions) \subseteq {"XXX"}
               /\ \A i \in DOMAIN pf.positions :
                      pf.positions[i].v = Position(10, 100, Today - 60, FALSE, FALSE, RInt(120))}
    /\ current_prices = [s \in Symbols |-> None]
    /\ ma200_prices = [s \in Symbols |-> None]
    /\ momentum_ranks = <<>>
    /\ run = NotCalled @@ [actions |-> <<>>]
    /\ exit_result = NotCalled @@ [exits |-> <<>>]
    /\ applied = NotCalled @@ [batch |-> <<>>, reviewed |-> 0, cash0 |-> portfolio.cash,
                                logged0 |-> Len(portfolio.transactions)]
    /\ ranking = NoRanking
    /\ stored = [portfolio |-> portfolio, tracked |-> FALSE]
    /\ confirmation = NoConfirmation

NextConfirm == ApplyConfirmedActions

SpecConfirm == InitConfirm /\ [][NextConfirm]_vars

\* Ranking: rank_by_momentum(symbols, top_n=...) has submitted one fetch per
\* symbol to the pool.
InitRank ==
    /\ portfolio = [cash |-> 0, positions |-> <<>>, transactions |-> <<>>]
    /\ current_prices = [s \in Symbols |-> None]
    /\ ma200_prices = [s \in Symbols |-> None]
    /\ momentum_ranks = <<>>
    /\ run = NotCalled @@ [actions |-> <<>>]
    /\ exit_result = NotCalled @@ [exits |-> <<>>]
    /\ applied = NotCalled @@ [batch |-> <<>>, reviewed |-> 0, cash0 |-> portfolio.cash,
                                logged0 |-> Len(portfolio.transactions)]
    /\ \E symbols \in SymbolLists, top_n \in TopNChoices,
          fetched \in [Symbols -> FetchedChoices] :
           /\ \A s \in Symbols \ Range(symbols) : fetched[s] = NoData
           /\ ranking = [symbols |-> symbols, top_n |-> top_n, fetched |-> fetched,
                         pending |-> Range(symbols), scores |-> <<>>,
                         returned |-> FALSE]
    /\ stored = [portfolio |-> portfolio, tracked |-> FALSE]
    /\ confirmation = NoConfirmation

\* for future in as_completed(futures): the next future to complete is any of
\* those still running
FutureCompletes ==
    \E sym \in ranking.pending :
        /\ ranking' = [ranking EXCEPT
                           !.pending = @ \ {sym},
                           !.scores = collect(@, sym, ranking.fetched[sym])]
        /\ UNCHANGED <<portfolio, current_prices, ma200_prices, momentum_ranks, run,
                       exit_result, applied, stored, confirmation>>

\* every future has completed: rank_by_momentum sorts, ranks and returns
RankByMomentum ==
    /\ ranking.pending = {}
    /\ ~ranking.returned
    /\ momentum_ranks' = rank_by_momentum(ranking.scores, ranking.top_n)
    /\ ranking' = [ranking EXCEPT !.returned = TRUE]
    /\ UNCHANGED <<portfolio, current_prices, ma200_prices, run, exit_result, applied,
                   stored, confirmation>>

NextRank == FutureCompletes \/ RankByMomentum

SpecRank == InitRank /\ [][NextRank]_vars

\* High-price tracking: a portfolio of positions with and without a recorded
\* high, on which the two tracking functions and confirmations operate.
InitHigh ==
    /\ portfolio \in
           {pf \in StoredPortfolios({1000}) :
               \A i \in DOMAIN pf.positions :
                   pf.positions[i].k = "XXX" /\ pf.positions[i].v \in
                       {Position(10, 100, Today - 60, FALSE, FALSE, NoneR),
                        Position(10, 100, Today - 60, FALSE, FALSE, RInt(120))}}
    /\ current_prices = [s \in Symbols |-> None]
    /\ ma200_prices = [s \in Symbols |-> None]
    /\ momentum_ranks = <<>>
    /\ run = NotCalled @@ [actions |-> <<>>]
    /\ exit_result = NotCalled @@ [exits |-> <<>>]
    /\ applied = NotCalled @@ [batch |-> <<>>, reviewed |-> 0, cash0 |-> portfolio.cash,
                                logged0 |-> Len(portfolio.transactions)]
    /\ ranking = NoRanking
    /\ stored = [portfolio |-> portfolio, tracked |-> FALSE]
    /\ confirmation = NoConfirmation

\* the prices fetched between two tracking calls: held symbols only
TrackedPriceMaps == {m \in PriceMaps : m["BBB"] = None /\ m["XXX"] # 60 /\ m["XXX"] # 84}

\* initialize_high_prices(portfolio, current_prices), on freshly fetched prices
InitializeHighPrices ==
    \E prices \in TrackedPriceMaps :
        /\ current_prices' = prices
        /\ portfolio' = initialize_high_prices(portfolio, prices)
        /\ UNCHANGED <<ma200_prices, momentum_ranks, run, exit_result, applied, ranking,
                       stored, confirmation>>

\* update_high_prices(portfolio, current_prices), on freshly fetched prices
UpdateHighPrices ==
    \E prices \in TrackedPriceMaps :
        /\ current_prices' = prices
        /\ portfolio' = update_high_prices(portfolio, prices).portfolio
        /\ UNCHANGED <<ma200_prices, momentum_ranks, run, exit_result, applied, ranking,
                       stored, confirmation>>

\* run_confirm with one ADD offered, confirmed with the choice y
ConfirmAdd ==
    \E a \in ConfirmInputs :
        /\ ConfirmedAdd(a)
        /\ a.actual_shares = None
        /\ a.suggested_shares > 0
        /\ ApplyBatch(<<a>>)

NextHigh == InitializeHighPrices \/ UpdateHighPrices \/ ConfirmAdd

SpecHigh == InitHigh /\ [][NextHigh]_vars

\* run_premarket from the loaded portfolio and the fetched signals to the
\* action list: steps 4.6 and 5.
InitPremarket ==
    /\ portfolio \in
           {pf \in StoredPortfolios({10000}) :
               \A i \in DOMAIN pf.positions :
                   pf.positions[i].v \in
                       {Position(10, 100, Today - 60, TRUE, FALSE, NoneR),
                        Position(10, 100, Today - 60, FALSE, FALSE, NoneR),
                        Position(10, 100, Today - 60, FALSE, FALSE, RInt(100))}}
    /\ current_prices \in PriceMaps
    /\ ma200_prices \in Ma200Maps
    /\ momentum_ranks \in RankLists
    /\ run = NotCalled @@ [actions |-> <<>>]
    /\ exit_result = NotCalled @@ [exits |-> <<>>]
    /\ applied = NotCalled @@ [batch |-> <<>>, reviewed |-> 0, cash0 |-> portfolio.cash,
                                logged0 |-> Len(portfolio.transactions)]
    /\ ranking = NoRanking
    /\ stored = [portfolio |-> portfolio, tracked |-> FALSE]
    /\ confirmation = NoConfirmation

\* step 4.6: initialize_high_prices, update_high_prices, and save_portfolio
\* when update_high_prices returned True
TrackHighPrices ==
    /\ ~stored.tracked
    /\ LET result == update_high_prices(initialize_high_prices(portfolio, current_prices),
                                        current_prices)
       IN  /\ portfolio' = result.portfolio
           /\ stored' = [portfolio |-> IF result.updated THEN result.portfolio
                                       ELSE stored.portfolio,
                         tracked |-> TRUE]
    /\ UNCHANGED <<current_prices, ma200_prices, momentum_ranks, run, exit_result, applied,
                   ranking, confirmation>>

\* step 5: generate_actions on the portfolio step 4.6 left in memory
GenerateAfterTracking == stored.tracked /\ GenerateActions

NextPremarket == TrackHighPrices \/ GenerateAfterTracking

SpecPremarket == InitPremarket /\ [][NextPremarket]_vars

-----------------------------------------------------------------------------
(* src/confirm_main.py *)

\* the "symbol" of an action that has no such key
NoSymbol == "(no symbol)"

\* the runs of run_confirm on one actions file
MaxRuns == 2

\* what the user answers to one offered action: y, n, or m followed by the
\* shares and the price typed
Choices ==
    {[key |-> "y", shares |-> None, price |-> None],
     [key |-> "n", shares |-> None, price |-> None],
     [key |-> "m", shares |-> 3, price |-> 80]}

\* resolve leaving the action as it was in the file
resolve_unrecorded(a, choice) == a

\* the action as run_confirm leaves it after the answer
resolve(a, choice) ==
    IF choice.key = "y"
    THEN [a EXCEPT !.status = "confirmed", !.confirm_date = Today]
    ELSE IF choice.key = "m"
    THEN IF a.action \in {"ADD", "EXIT"}
         THEN [a EXCEPT !.actual_shares = choice.shares, !.actual_price = choice.price,
                        !.status = "confirmed", !.confirm_date = Today]
         ELSE [a EXCEPT !.status = "confirmed", !.confirm_date = Today]
    ELSE [a EXCEPT !.status = "skipped"]

\* run_confirm on the actions of the file, the answers given and the stored
\* portfolio: what it raised, the file and the portfolio it leaves, and the
\* list it handed to apply_confirmed_actions
run_confirm(actions, choices, pf) ==
    LET pending == {i \in DOMAIN actions : actions[i].status = "pending"}
        resolved == [i \in DOMAIN actions |->
                        IF i \in pending THEN resolve(actions[i], choices[i])
                        ELSE actions[i]]
        confirmed_actions ==
            SelectSeq([i \in DOMAIN actions |->
                          IF i \in pending THEN resolved[i]
                          ELSE [actions[i] EXCEPT !.status = "not offered"]],
                      LAMBDA a : a.status = "confirmed")
    IN  IF pending = {}
        THEN [raised |-> "none", offered |-> 0, actions |-> actions,
              confirmed_actions |-> <<>>, portfolio |-> pf]
        ELSE IF \E i \in pending : actions[i].symbol = NoSymbol
        THEN [raised |-> "KeyError", offered |-> 0, actions |-> actions,
              confirmed_actions |-> <<>>, portfolio |-> pf]
        ELSE [raised |-> "none", offered |-> Cardinality(pending), actions |-> resolved,
              confirmed_actions |-> confirmed_actions,
              portfolio |-> apply_confirmed_actions(pf, confirmed_actions)]

\* the entries of an actions file as generate_actions writes them: pending
\* ADD and EXIT, an auto HOLD, and a pending ROTATE, which has no symbol key
Emitted(status, act, symbol, suggested, shares, price) ==
    [Confirm(status, act, symbol, suggested, shares, price, None, None)
         EXCEPT !.confirm_date = None]

FileActions ==
    {Emitted("pending", "ADD", "AAA", 5, None, 50),
     Emitted("pending", "EXIT", "XXX", None, 10, 50),
     Emitted("auto", "HOLD", "XXX", None, 10, 50),
     Emitted("pending", "ROTATE", NoSymbol, None, None, None)}

ActionFiles == UNION {[1..n -> FileActions] : n \in 1..MaxBatch}

\* Confirmation from the file: a stored portfolio and an actions file on
\* which run_confirm is run, and run again.
InitRerun ==
    /\ portfolio \in
           {pf \in StoredPortfolios({100, 1000}) :
               /\ Keys(pf.positions) \subseteq {"XXX"}
               /\ \A i \in DOMAIN pf.positions :
                      pf.positions[i].v = Position(10, 100, Today - 60, FALSE, FALSE, RInt(120))}
    /\ current_prices = [s \in Symbols |-> None]
    /\ ma200_prices = [s \in Symbols |-> None]
    /\ momentum_ranks = <<>>
    /\ run = NotCalled @@ [actions |-> <<>>]
    /\ exit_result = NotCalled @@ [exits |-> <<>>]
    /\ applied = NotCalled @@ [batch |-> <<>>, reviewed |-> 0, cash0 |-> portfolio.cash,
                                logged0 |-> Len(portfolio.transactions)]
    /\ ranking = NoRanking
    /\ stored = [portfolio |-> portfolio, tracked |-> FALSE]
    /\ \E actions \in ActionFiles :
           confirmation = [NoConfirmation EXCEPT !.actions = actions]

\* python confirm_main.py <date>
RunConfirm ==
    /\ confirmation.runs < MaxRuns
    /\ \E choices \in [DOMAIN confirmation.actions -> Choices] :
           LET result == run_confirm(confirmation.actions, choices, stored.portfolio)
           IN  /\ confirmation' = [actions |-> result.actions,
                                   runs |-> confirmation.runs + 1,
                                   raised |-> result.raised,
                                   offered |-> result.offered]
               /\ portfolio' = result.portfolio
               /\ stored' = [stored EXCEPT !.portfolio = result.portfolio]
               /\ applied' = IF result.confirmed_actions = <<>> THEN applied
                             ELSE [applied EXCEPT
                                       !.called = TRUE,
                                       !.batch = result.confirmed_actions,
                                       !.reviewed = @ + Len(result.confirmed_actions)]
    /\ UNCHANGED <<current_prices, ma200_prices, momentum_ranks, run, exit_result, ranking>>

NextRerun == RunConfirm

SpecRerun == InitRerun /\ [][NextRerun]_vars

-----------------------------------------------------------------------------
(* What the claims speak of *)

Actions(kind) == {a \in Range(run.actions) : a.action = kind}

\* the stored position of a held symbol
Held(s) == Has(portfolio.positions, s)

Pos(s) == Get(portfolio.positions, s)

\* the rule lists of check_all_exit_conditions, at its default thresholds
Rule1Triggers(s) ==
    \E item \in Range(check_trailing_stop(portfolio.positions, current_prices,
                                          trailing_threshold_default,
                                          max_loss_threshold_default)) : item.symbol = s

Ma200Triggers(s) ==
    \E item \in Range(check_ma200_stop(portfolio.positions, current_prices, ma200_prices)) :
        item.symbol = s

ExtremeTriggers(s) ==
    \E item \in Range(check_stop_loss(portfolio.positions, current_prices,
                                      hard_threshold_default)) : item.symbol = s

\* the reasons reported for s by the last call of check_all_exit_conditions
Reported(s) ==
    {exit_result.exits[i].v.reason :
        i \in {j \in DOMAIN exit_result.exits : exit_result.exits[j].k = s}}

\* C1: after generate_actions has run, every core position has a HOLD action
\* and no EXIT action, whatever the prices, MA200 values and momentum are.
C1_CoreAlwaysHold ==
    run.called =>
        \A s \in Symbols :
            Held(s) /\ Pos(s).core =>
                /\ \E a \in Actions("HOLD") : a.symbol = s
                /\ ~\E a \in Actions("EXIT") : a.symbol = s

\* C2: after generate_actions has run, every non-core position whose price is
\* known and is 15% or more below avg_price has an EXIT action with source
\* fixed_stop, and no action of source ma200_stop or extreme_stop.
C2_FixedStopExit ==
    run.called =>
        \A s \in Symbols :
            /\ Held(s)
            /\ ~Pos(s).core
            /\ current_prices[s] # None
            /\ Pos(s).avg_price.n > 0
            /\ PnlAtMost(current_prices[s], Pos(s).avg_price, -15)
            => /\ \E a \in Actions("EXIT") : a.symbol = s /\ a.source = "fixed_stop"
               /\ ~\E a \in Actions("EXIT") :
                      a.symbol = s /\ a.source \in {"ma200_stop", "extreme_stop"}

\* C3: check_all_exit_conditions reports at most one signal per symbol and
\* picks it by priority: the rule-1 stop when rule 1 triggers, ma200_stop only
\* when rule 1 did not trigger, extreme_stop only when neither did.
C3_StrictPriority ==
    exit_result.called /\ exit_result.raised = "none" =>
        \A s \in Symbols :
            /\ Cardinality({i \in DOMAIN exit_result.exits : exit_result.exits[i].k = s}) <= 1
            /\ Rule1Triggers(s) => Reported(s) = {"trailing_stop"}
            /\ "ma200_stop" \in Reported(s) => ~Rule1Triggers(s) /\ Ma200Triggers(s)
            /\ "extreme_stop" \in Reported(s) =>
                   ~Rule1Triggers(s) /\ ~Ma200Triggers(s) /\ ExtremeTriggers(s)
            /\ ~Rule1Triggers(s) /\ Ma200Triggers(s) => Reported(s) = {"ma200_stop"}
            /\ ~Rule1Triggers(s) /\ ~Ma200Triggers(s) /\ ExtremeTriggers(s)
                   => Reported(s) = {"extreme_stop"}

\* C3's case: the call has returned for a portfolio in which one position
\* triggers all three rules at once and another triggers the MA200 rule only.
C3_Witness ==
    /\ exit_result.called
    /\ exit_result.raised = "none"
    /\ \E s \in Symbols : Rule1Triggers(s) /\ Ma200Triggers(s) /\ ExtremeTriggers(s)
    /\ \E s \in Symbols : ~Rule1Triggers(s) /\ Ma200Triggers(s) /\ ~ExtremeTriggers(s)

\* C4: after generate_actions has run, the run has raised nothing, every
\* non-core position without a price has a HOLD action and no EXIT action, and
\* no position without an MA200 value has an action of source ma200_stop.
C4_MissingDataNoExit ==
    run.called =>
        \A s \in Symbols :
            Held(s) /\ ~Pos(s).core =>
                /\ current_prices[s] = None =>
                       /\ run.raised = "none"
                       /\ \E a \in Actions("HOLD") : a.symbol = s
                       /\ ~\E a \in Actions("EXIT") : a.symbol = s
                /\ current_prices[s] # None /\ ma200_prices[s] = None =>
                       /\ run.raised = "none"
                       /\ ~\E a \in Actions("EXIT") : a.symbol = s /\ a.source = "ma200_stop"

\* the ADD actions of the last run, in the order they were emitted
AddsEmitted == SelectSeq(run.actions, LAMBDA a : a.action = "ADD")

\* floor((cash / n) / price) for a known positive price and positive cash, else 0
ClaimedShares(cash, n, price) ==
    IF price # None /\ price > 0 /\ cash.n > 0
    THEN cash.n \div (cash.d * n * price)
    ELSE 0

\* C6: after generate_actions has run, with N = min(5, available slots, number
\* of buy candidates), the ADD actions are exactly the first N candidates in
\* rank order, each with suggested_shares = floor((projected_cash / N) / price),
\* or 0 when the price is unavailable or the allocation is below one share.
C6_AddSizing ==
    run.called =>
        LET cands == buy_candidates(portfolio.positions, momentum_ranks, run.actions)
            slots == check_position_limit(portfolio) + Cardinality(Actions("EXIT"))
            N == Min(5, Min(slots, Len(cands)))
            cash == projected_cash(portfolio, run.actions, current_prices)
        IN  /\ Len(AddsEmitted) = N
            /\ \A j \in 1..N :
                   /\ AddsEmitted[j].symbol = cands[j].symbol
                   /\ AddsEmitted[j].suggested_shares =
                          ClaimedShares(cash, N, current_prices[cands[j].symbol])

\* a holding the claims call eligible for rotation
Eligible(s) ==
    /\ Held(s)
    /\ ~Pos(s).core
    /\ ~Pos(s).favorite
    /\ ~\E a \in Actions("EXIT") : a.symbol = s
    /\ InRanks(momentum_ranks, s)
    /\ get_holding_days(Pos(s)) >= 30

\* C8: after generate_actions has run, every sell_symbol of a ROTATE action is
\* an eligible holding (non-core, non-favorite, no EXIT in the run, with a
\* momentum, held at least 30 days), and a favorite position that meets a
\* stop-loss rule still gets its EXIT action.
C8_RotateSellEligible ==
    run.called =>
        /\ \A a \in Actions("ROTATE") : Eligible(a.sell_symbol)
        /\ \A s \in Symbols :
               /\ Held(s)
               /\ Pos(s).favorite
               /\ ~Pos(s).core
               /\ Rule1Triggers(s) \/ Ma200Triggers(s) \/ ExtremeTriggers(s)
               => \E a \in Actions("EXIT") : a.symbol = s

\* C9: after generate_actions has run, the weakest eligible holding that has a
\* price is sold in a ROTATE whose buy side is the strongest candidate whose
\* momentum exceeds the holding's by more than 10 points (when that pairing buys
\* at least one share); with holdings at 2 and -5 and one candidate at 30 the
\* ROTATE sells the -5 holding.
C9_GreedyWeakestFirst ==
    run.called =>
        LET cands == buy_candidates(portfolio.positions, momentum_ranks, run.actions)
            exceeds(j, s) == cands[j].momentum - MomentumOf(momentum_ranks, s) > 10
        IN  \A s \in Symbols :
                /\ Eligible(s)
                /\ current_prices[s] # None
                /\ \A t \in Symbols \ {s} :
                       Eligible(t) =>
                           MomentumOf(momentum_ranks, s) < MomentumOf(momentum_ranks, t)
                => \A j \in DOMAIN cands :
                       /\ exceeds(j, s)
                       /\ \A i \in 1..(j - 1) : ~exceeds(i, s)
                       /\ rotate_shares(current_prices[s] * Pos(s).shares,
                                        price_or_zero(current_prices, cands[j].symbol)) > 0
                       => \E a \in Actions("ROTATE") :
                              a.sell_symbol = s /\ a.buy_symbol = cands[j].symbol

\* the s and p of a reviewed ADD: the actual values when present, otherwise the
\* suggested shares and the current price
ClaimedAddShares(a) ==
    IF a.actual_shares # None THEN a.actual_shares ELSE a.suggested_shares

ClaimedAddPrice(a) ==
    IF a.actual_price # None THEN a.actual_price ELSE a.current_price

\* the portfolio after the first k actions of a batch
AfterPrefix(pf, batch, k) == apply_confirmed_actions(pf, SubSeq(batch, 1, k))

\* what the claim says one confirmed ADD does to the portfolio
AddAsClaimed(before, after, a) ==
    LET s == ClaimedAddShares(a)
        p == ClaimedAddPrice(a)
        new == Get(after.positions, a.symbol)
        old == Get(before.positions, a.symbol)
    IN  /\ Has(after.positions, a.symbol)
        /\ IF ~Has(before.positions, a.symbol)
           THEN /\ new.shares = s
                /\ new.avg_price = RInt(p)
                /\ new.cost_basis = RInt(p * s)
                /\ ~new.core
           ELSE /\ new.shares = old.shares + s
                /\ new.avg_price.d > 0
                /\ new.avg_price.n * old.avg_price.d * (old.shares + s)
                       = (old.avg_price.n * old.shares + p * s * old.avg_price.d)
                             * new.avg_price.d
                /\ new.cost_basis.d > 0
                /\ new.cost_basis.n * new.avg_price.d
                       = new.avg_price.n * new.shares * new.cost_basis.d
        /\ after.cash = before.cash - p * s
        /\ Len(after.transactions) = Len(before.transactions) + 1
        /\ SubSeq(after.transactions, 1, Len(before.transactions)) = before.transactions
        /\ LET t == after.transactions[Len(after.transactions)]
           IN  t.symbol = a.symbol /\ t.action = "ADD" /\ t.shares = s /\ t.price = p


\* C10 as stated: every confirmed ADD of a batch handed to
\* apply_confirmed_actions creates or averages the position, lowers cash by
\* p*s and appends one ADD transaction {symbol, s, p}.
C10_EveryConfirmedAdd ==
    [][applied'.called =>
           /\ portfolio' = AfterPrefix(portfolio, applied'.batch, Len(applied'.batch))
           /\ \A k \in DOMAIN applied'.batch :
                  ConfirmedAdd(applied'.batch[k]) =>
                      AddAsClaimed(AfterPrefix(portfolio, applied'.batch, k - 1),
                                   AfterPrefix(portfolio, applied'.batch, k),
                                   applied'.batch[k])]_vars

\* C10 amended: a confirmed ADD with s > 0 does what the claim says; a
\* confirmed ADD with s <= 0 changes nothing and appends nothing.
C10_ConfirmedAddOfPositiveShares ==
    [][applied'.called =>
           /\ portfolio' = AfterPrefix(portfolio, applied'.batch, Len(applied'.batch))
           /\ \A k \in DOMAIN applied'.batch :
                  ConfirmedAdd(applied'.batch[k]) =>
                      IF ClaimedAddShares(applied'.batch[k]) > 0
                      THEN AddAsClaimed(AfterPrefix(portfolio, applied'.batch, k - 1),
                                        AfterPrefix(portfolio, applied'.batch, k),
                                        applied'.batch[k])
                      ELSE AfterPrefix(portfolio, applied'.batch, k)
                               = AfterPrefix(portfolio, applied'.batch, k - 1)]_vars

\* C10's case: the last batch held a confirmed ADD with actual_shares and
\* actual_price, and the symbol is now held at an averaged, non-integer cost.
C10_Witness ==
    /\ applied.called
    /\ \E k \in DOMAIN applied.batch :
           /\ ConfirmedAdd(applied.batch[k])
           /\ applied.batch[k].actual_shares # None
           /\ Held(applied.batch[k].symbol)
           /\ Pos(applied.batch[k].symbol).avg_price.d > 1

-----------------------------------------------------------------------------
(* Confirmed EXIT *)

\* action.get("actual_shares", action.get("shares", 0))
ClaimedExitShares(a) ==
    IF a.actual_shares # None THEN a.actual_shares ELSE a.shares

\* what the claim says one confirmed EXIT of s shares at price p does
ExitAsClaimed(before, after, a) ==
    LET s == ClaimedExitShares(a)
        p == ClaimedAddPrice(a)
        new == Get(after.positions, a.symbol)
        old == Get(before.positions, a.symbol)
    IN  /\ IF ~Has(before.positions, a.symbol)
           THEN after.positions = before.positions
           ELSE IF s >= old.shares
           THEN /\ ~Has(after.positions, a.symbol)
                /\ after.positions = Del(before.positions, a.symbol)
           ELSE /\ Has(after.positions, a.symbol)
                /\ new.shares = old.shares - s
                /\ new.avg_price = old.avg_price
                /\ new.cost_basis = RMulInt(new.avg_price, new.shares)
                /\ Del(after.positions, a.symbol) = Del(before.positions, a.symbol)
        /\ after.cash = before.cash + p * s
        /\ Len(after.transactions) = Len(before.transactions) + 1
        /\ SubSeq(after.transactions, 1, Len(before.transactions)) = before.transactions
        /\ LET t == after.transactions[Len(after.transactions)]
           IN  t.symbol = a.symbol /\ t.action = "EXIT" /\ t.shares = s /\ t.price = p

ConfirmedExit(a) == a.status = "confirmed" /\ a.action = "EXIT"

\* C11 as stated: every confirmed EXIT of a batch handed to
\* apply_confirmed_actions deletes the position when s >= held shares, else
\* lowers its shares by s with avg_price kept and cost_basis = avg_price *
\* remaining shares; cash rises by p*s and one EXIT transaction is appended.
C11_EveryConfirmedExit ==
    [][applied'.called =>
           \A k \in DOMAIN applied'.batch :
               ConfirmedExit(applied'.batch[k]) =>
                   ExitAsClaimed(AfterPrefix(portfolio, applied'.batch, k - 1),
                                 AfterPrefix(portfolio, applied'.batch, k),
                                 applied'.batch[k])]_vars

\* C11 amended: a confirmed EXIT with s > 0 does what the claim says; a
\* confirmed EXIT with s <= 0 changes nothing and appends nothing.
C11_ConfirmedExitOfPositiveShares ==
    [][applied'.called =>
           /\ portfolio' = AfterPrefix(portfolio, applied'.batch, Len(applied'.batch))
           /\ \A k \in DOMAIN applied'.batch :
                  ConfirmedExit(applied'.batch[k]) =>
                      IF ClaimedExitShares(applied'.batch[k]) > 0
                      THEN ExitAsClaimed(AfterPrefix(portfolio, applied'.batch, k - 1),
                                         AfterPrefix(portfolio, applied'.batch, k),
                                         applied'.batch[k])
                      ELSE AfterPrefix(portfolio, applied'.batch, k)
                               = AfterPrefix(portfolio, applied'.batch, k - 1)]_vars

\* C11's case: the last action of the last batch was a confirmed EXIT of fewer
\* shares than were held, and the position is still held with fewer shares.
C11_Witness ==
    /\ applied.called
    /\ LET a == applied.batch[Len(applied.batch)]
       IN  /\ ConfirmedExit(a)
           /\ ClaimedExitShares(a) > 0
           /\ Held(a.symbol)
           /\ Pos(a.symbol).shares < 10
           /\ portfolio.transactions[Len(portfolio.transactions)].action = "EXIT"

-----------------------------------------------------------------------------
(* Capital conservation *)

\* the transactions appended since the portfolio was loaded
Appended == SubSeq(portfolio.transactions, applied.logged0 + 1, Len(portfolio.transactions))

\* price * shares of the EXIT transactions minus price * shares of the ADD ones
RECURSIVE cash_flow(_)
cash_flow(transactions) ==
    IF transactions = <<>> THEN 0
    ELSE LET t == Head(transactions)
         IN  (IF t.action = "ADD" THEN 0 - t.price * t.shares
              ELSE IF t.action = "EXIT" THEN t.price * t.shares
              ELSE 0) + cash_flow(Tail(transactions))

Conserved == portfolio.cash = applied.cash0 + cash_flow(Appended)

-----------------------------------------------------------------------------
(* Actions that were not confirmed *)

NotConfirmed(a) == a.status # "confirmed"

\* C13: an action whose status is not confirmed (pending, skipped, auto),
\* passed to apply_confirmed_actions, leaves cash, every position and the
\* transaction log as they were.
C13_NotConfirmedNoMutation ==
    [][applied'.called =>
           /\ portfolio' = AfterPrefix(portfolio, applied'.batch, Len(applied'.batch))
           /\ \A k \in DOMAIN applied'.batch :
                  NotConfirmed(applied'.batch[k]) =>
                      AfterPrefix(portfolio, applied'.batch, k)
                          = AfterPrefix(portfolio, applied'.batch, k - 1)
           /\ (\A k \in DOMAIN applied'.batch : NotConfirmed(applied'.batch[k]))
                  => portfolio' = portfolio]_vars

\* C13's case: one call was made with a skipped ADD and a pending EXIT of a
\* held symbol, and the portfolio is as it was loaded.
C13_Witness ==
    /\ applied.called
    /\ applied.reviewed = 2
    /\ Len(applied.batch) = 2
    /\ applied.batch[1].status = "skipped" /\ applied.batch[1].action = "ADD"
    /\ applied.batch[2].status = "pending" /\ applied.batch[2].action = "EXIT"
    /\ Held(applied.batch[2].symbol)
    /\ portfolio.cash = applied.cash0
    /\ Appended = <<>>

-----------------------------------------------------------------------------
(* ADD then EXIT *)

\* actions k and k+1 of the batch are a confirmed ADD of s > 0 shares at
\* p > 0 of a symbol not held before action k, and a confirmed EXIT of the
\* same symbol, shares and price
RoundTripAt(pf, batch, k) ==
    /\ k + 1 \in DOMAIN batch
    /\ ConfirmedAdd(batch[k])
    /\ ConfirmedExit(batch[k + 1])
    /\ batch[k + 1].symbol = batch[k].symbol
    /\ ~Has(AfterPrefix(pf, batch, k - 1).positions, batch[k].symbol)
    /\ ClaimedAddShares(batch[k]) > 0
    /\ ClaimedAddPrice(batch[k]) > 0
    /\ ClaimedExitShares(batch[k + 1]) = ClaimedAddShares(batch[k])
    /\ ClaimedAddPrice(batch[k + 1]) = ClaimedAddPrice(batch[k])

-----------------------------------------------------------------------------
(* Insufficient cash *)

\* action k of the batch is a confirmed ADD that costs more than the cash
\* left by the actions before it
Overdraws(pf, batch, k) ==
    /\ ConfirmedAdd(batch[k])
    /\ ClaimedAddShares(batch[k]) > 0
    /\ ClaimedAddPrice(batch[k]) * ClaimedAddShares(batch[k])
           > AfterPrefix(pf, batch, k - 1).cash

\* C15: a confirmed ADD whose cost price*shares exceeds the cash available
\* changes neither the position, cash nor the log, and the call raises an
\* error; cash is never negative after apply_confirmed_actions returns
\* normally.
C15_InsufficientCashRejected ==
    [][applied'.called =>
           /\ \A k \in DOMAIN applied'.batch :
                  Overdraws(portfolio, applied'.batch, k) =>
                      /\ AfterPrefix(portfolio, applied'.batch, k)
                             = AfterPrefix(portfolio, applied'.batch, k - 1)
                      /\ applied'.raised # "none"
           /\ (applied'.raised = "none" /\ portfolio.cash >= 0)
                  => portfolio'.cash >= 0]_vars

-----------------------------------------------------------------------------
(* Invalid positions *)

\* a stored position with avg_price <= 0 or shares < 0
Invalid(s) == Held(s) /\ (Pos(s).avg_price.n <= 0 \/ Pos(s).shares < 0)

\* C16: a position with avg_price <= 0 or shares < 0 is surfaced as a failure
\* by the run that meets it: generate_actions raises and emits no HOLD, EXIT or
\* ROTATE action for it, and the exit rules it calls raise rather than pass
\* over it.
C16_InvalidStateSurfaced ==
    \A s \in Symbols :
        Invalid(s) /\ ~Pos(s).core =>
            /\ run.called =>
                   /\ run.raised # "none"
                   /\ ~\E a \in Range(run.actions) : a.symbol = s
            /\ exit_result.called => exit_result.raised # "none"

-----------------------------------------------------------------------------
(* Ranking *)

\* the symbols of the list for which the fetch returned a momentum
Scored == {s \in Range(ranking.symbols) : ranking.fetched[s].ok}

\* the place of a symbol in the list handed to rank_by_momentum
InputIndex(s) == CHOOSE i \in DOMAIN ranking.symbols : ranking.symbols[i] = s

\* momentum descending, ranks 1, 2, ... in list order, each entry echoing the
\* momentum fetched for its symbol
RankedDescending ==
    /\ \A i \in DOMAIN momentum_ranks :
           /\ momentum_ranks[i].rank = i
           /\ momentum_ranks[i].symbol \in Scored
           /\ momentum_ranks[i].momentum = ranking.fetched[momentum_ranks[i].symbol].momentum
    /\ \A i, j \in DOMAIN momentum_ranks :
           /\ i # j => momentum_ranks[i].symbol # momentum_ranks[j].symbol
           /\ momentum_ranks[i].momentum > momentum_ranks[j].momentum
                  => momentum_ranks[i].rank < momentum_ranks[j].rank

\* top_n is given and not 0
Truncates == ranking.top_n # None /\ ranking.top_n # 0

\* C17 as stated: what rank_by_momentum returns is sorted by momentum
\* descending, its ranks are exactly 1..n over the symbols that have a
\* computed momentum, and symbols without one are absent.
C17_TotalOrderOverScored ==
    ranking.returned =>
        /\ RankedDescending
        /\ {momentum_ranks[i].symbol : i \in DOMAIN momentum_ranks} = Scored
        /\ Len(momentum_ranks) = Cardinality(Scored)

\* C17 amended: the result is sorted by momentum descending with ranks 1, 2,
\* ...; without top_n it ranks exactly the symbols that have a computed
\* momentum; with top_n = N > 0 it is the first min(N, n) entries of that
\* ranking, so that no symbol left out has more momentum than one kept.
C17_TotalOrderUpToTopN ==
    ranking.returned =>
        /\ RankedDescending
        /\ Len(momentum_ranks) =
               IF Truncates THEN Min(ranking.top_n, Cardinality(Scored))
               ELSE Cardinality(Scored)
        /\ \A s \in Scored :
               (\A i \in DOMAIN momentum_ranks : momentum_ranks[i].symbol # s) =>
                   \A i \in DOMAIN momentum_ranks :
                       momentum_ranks[i].momentum >= ranking.fetched[s].momentum

\* C17's case: a list of three symbols, one without enough history, was
\* ranked without top_n; the futures completed with the smaller momentum
\* first, and the result ranks the other two symbols 1 and 2.
C17_Witness ==
    /\ ranking.returned
    /\ ~Truncates
    /\ Len(ranking.symbols) = 3
    /\ Len(momentum_ranks) = 2
    /\ momentum_ranks[1].momentum > momentum_ranks[2].momentum
    /\ ranking.scores[1].k = momentum_ranks[2].symbol

\* C18: for every order in which the fetches complete, symbols of equal
\* momentum appear in the result in the order they have in the input list.
C18_TiesInInputOrder ==
    ranking.returned =>
        \A i, j \in DOMAIN momentum_ranks :
            (i < j /\ momentum_ranks[i].momentum = momentum_ranks[j].momentum)
                => InputIndex(momentum_ranks[i].symbol) < InputIndex(momentum_ranks[j].symbol)

-----------------------------------------------------------------------------
(* Positive shares *)

AllSharesPositive(pf) == \A i \in DOMAIN pf.positions : pf.positions[i].v.shares > 0

\* the shares a confirmed ADD or EXIT is applied with
AppliedShares(a) ==
    IF a.action = "EXIT" THEN ClaimedExitShares(a) ELSE ClaimedAddShares(a)

\* C21: starting from positions that all have shares > 0, every call of
\* apply_confirmed_actions leaves every stored position with shares > 0 (a
\* position sold down to 0 is deleted), and a confirmed ADD or EXIT with
\* shares <= 0 leaves the positions as they were.
C21_SharesStayPositive ==
    [][/\ AllSharesPositive(portfolio) => AllSharesPositive(portfolio')
       /\ applied'.called =>
              \A k \in DOMAIN applied'.batch :
                  ((ConfirmedAdd(applied'.batch[k]) \/ ConfirmedExit(applied'.batch[k]))
                       /\ AppliedShares(applied'.batch[k]) <= 0)
                      => AfterPrefix(portfolio, applied'.batch, k).positions
                             = AfterPrefix(portfolio, applied'.batch, k - 1).positions]_vars

\* C21's case: the last action applied sold exactly the 10 shares held of a
\* symbol, and the symbol has no position any more.
C21_Witness ==
    /\ applied.called
    /\ LET a == applied.batch[Len(applied.batch)]
       IN  /\ ConfirmedExit(a)
           /\ ClaimedExitShares(a) = 10
           /\ ~Held(a.symbol)
           /\ \E i \in DOMAIN Appended :
                  Appended[i].symbol = a.symbol /\ Appended[i].action = "EXIT"
                      /\ Appended[i].shares = 10
    /\ Len(Appended) = 1
    /\ AllSharesPositive(portfolio)

-----------------------------------------------------------------------------
(* The recorded high *)

\* the step called update_high_prices
UpdateStep ==
    /\ applied' = applied
    /\ portfolio' = update_high_prices(portfolio, current_prices').portfolio

\* the symbol is held before the step, after it, and after every action of the
\* batch when the step applies one
StaysHeld(s) ==
    /\ Has(portfolio.positions, s)
    /\ Has(portfolio'.positions, s)
    /\ applied' # applied =>
           \A k \in DOMAIN applied'.batch :
               Has(AfterPrefix(portfolio, applied'.batch, k).positions, s)

-----------------------------------------------------------------------------
(* Who changes the portfolio *)

\* the two portfolios differ at most in the high_since_entry of their positions
SameButHighs(a, b) ==
    /\ a.cash = b.cash
    /\ a.transactions = b.transactions
    /\ DOMAIN a.positions = DOMAIN b.positions
    /\ \A i \in DOMAIN a.positions :
           /\ a.positions[i].k = b.positions[i].k
           /\ [a.positions[i].v EXCEPT !.high_since_entry = NoneR]
                  = [b.positions[i].v EXCEPT !.high_since_entry = NoneR]

\* the price fetched for a held symbol is above the high recorded for it
AboveRecordedHigh(s) ==
    /\ Held(s)
    /\ current_prices[s] # None
    /\ Pos(s).high_since_entry # NoneR
    /\ RLt(Pos(s).high_since_entry, RInt(current_prices[s]))

-----------------------------------------------------------------------------
(* Confirming twice *)

Pending(actions) == {i \in DOMAIN actions : actions[i].status = "pending"}

\* C24: run_confirm offers only pending actions and records the answers in
\* the file, so a run that finds nothing pending changes neither the
\* portfolio nor the file, and a run that did not raise leaves nothing
\* pending; apply_confirmed_actions, given again the list just applied,
\* logs and moves cash by the same amounts a second time.
C24_AppliedAtMostOnce ==
    [][confirmation'.runs # confirmation.runs =>
           /\ Pending(confirmation.actions) = {} =>
                  /\ portfolio' = portfolio
                  /\ stored' = stored
                  /\ confirmation'.actions = confirmation.actions
           /\ confirmation'.raised = "none" => Pending(confirmation'.actions) = {}
           /\ applied' # applied =>
                  /\ Len(applied'.batch) <= Cardinality(Pending(confirmation.actions))
                  /\ stored'.portfolio = portfolio'
                  /\ LET twice == apply_confirmed_actions(portfolio', applied'.batch)
                     IN  /\ Len(twice.transactions) - Len(portfolio'.transactions)
                                = Len(portfolio'.transactions) - Len(portfolio.transactions)
                         /\ twice.cash - portfolio'.cash = portfolio'.cash - portfolio.cash]_vars

\* C24's case: run_confirm has run twice on the file; the first run confirmed
\* and applied an ADD and an EXIT, the second found nothing pending.
C24_Witness ==
    /\ confirmation.runs = 2
    /\ confirmation.raised = "none"
    /\ confirmation.offered = 0
    /\ Pending(confirmation.actions) = {}
    /\ Len(Appended) = 2
    /\ Len(applied.batch) = 2
    /\ portfolio.cash # applied.cash0

-----------------------------------------------------------------------------
(* The extreme stop *)

\* a non-core position with a price at or below the hard threshold from cost
AtOrBelowHard(s) ==
    /\ Held(s)
    /\ ~Pos(s).core
    /\ current_prices[s] # None
    /\ Pos(s).avg_price.n > 0
    /\ PnlAtMost(current_prices[s], Pos(s).avg_price, hard_threshold_default)

-----------------------------------------------------------------------------
(* Positions against the transaction log *)

\* shares of the symbol's logged ADD transactions minus those of its logged
\* EXIT transactions
RECURSIVE logged_shares(_, _)
logged_shares(transactions, s) ==
    IF transactions = <<>> THEN 0
    ELSE LET t == Head(transactions)
         IN  (IF t.symbol # s THEN 0
              ELSE IF t.action = "ADD" THEN t.shares
              ELSE IF t.action = "EXIT" THEN 0 - t.shares
              ELSE 0) + logged_shares(Tail(transactions), s)

\* the k-th action of the batch is a confirmed EXIT that sells shares
ExitApplied(batch, k) ==
    /\ batch[k].status = "confirmed"
    /\ batch[k].action = "EXIT"
    /\ shares_of(batch[k], "shares") > 0

\* C28: after any sequence of confirmed ADD and EXIT applications, every
\* symbol that still has a position holds the shares of its logged ADD
\* transactions minus the shares of its logged EXIT transactions; an EXIT
\* never logs or credits more shares than were held, and an EXIT of a symbol
\* that is not held logs nothing and leaves cash unchanged.
C28_SharesMatchLog ==
    [][/\ \A s \in Symbols :
              Has(portfolio'.positions, s) =>
                  Get(portfolio'.positions, s).shares
                      = logged_shares(portfolio'.transactions, s)
       /\ applied'.called =>
              \A k \in DOMAIN applied'.batch :
                  LET a == applied'.batch[k]
                      before == AfterPrefix(portfolio, applied'.batch, k - 1)
                      after == AfterPrefix(portfolio, applied'.batch, k)
                  IN  ExitApplied(applied'.batch, k) =>
                          IF Has(before.positions, a.symbol)
                          THEN /\ shares_of(a, "shares")
                                      <= Get(before.positions, a.symbol).shares
                               /\ after.cash - before.cash
                                      <= price_of(a) * Get(before.positions, a.symbol).shares
                          ELSE after = before]_vars

-----------------------------------------------------------------------------
(* Confirmation of every kind of pending action *)

\* C30: whatever pending EXIT, ADD and ROTATE actions the file holds and
\* whatever is answered for each, run_confirm completes without raising,
\* leaves no action of the file pending, and the stored portfolio is the
\* portfolio after the confirmed actions.
C30_EveryPendingResolved ==
    confirmation.runs > 0 =>
        /\ confirmation.raised = "none"
        /\ Pending(confirmation.actions) = {}
        /\ stored.portfolio = portfolio

====
